---- MODULE Spec2Model ----
(***************************************************************************)
(* A model of the public facade of sxd-xpath (src/src/lib.rs): the XPath   *)
(* value type with its three coercions, the Factory, and evaluate_xpath.   *)
(*                                                                         *)
(* Strings are sequences of one-character strings.  An f64 is a record     *)
(* [k, neg, m, e]: k = "nan", "inf" or "fin"; a finite value is            *)
(* (-1)^neg * m * 10^e with m = 0 /\ e = 0, or m not divisible by 10.      *)
(* Every decimal of at most 15 significant digits inside the normal range  *)
(* of f64 denotes a distinct f64 whose shortest round-trip digits are the  *)
(* decimal's own, so within the bounds of this model (at most 7            *)
(* significant digits) the record is an exact image of the f64.            *)
(***************************************************************************)
EXTENDS Integers, Sequences, FiniteSets, TLC

VARIABLES
    val,          \* the Value under conversion
    out,          \* the result of the last conversion: [op, r]
    doc,          \* the document: string values of its comment nodes, in document order
    signed_zero,  \* whether the standard library prints the sign of -0.0 (Rust >= 1.53)
    pc,           \* evaluate_xpath: position in the function
    xpath,        \* evaluate_xpath: the argument text
    document,     \* evaluate_xpath: the argument document
    built,        \* evaluate_xpath: what factory.build returned (line 293)
    expression,   \* evaluate_xpath: the expression after ok_or (line 294)
    context,      \* evaluate_xpath: the context of line 296, or None
    evals,        \* evaluate_xpath: number of Expression::evaluate calls made
    outcome,      \* evaluate_xpath: the returned Result, or None
    factory,      \* a long-lived Factory of the caller
    history       \* the builds made on that Factory: sequence of [text, result]

vars == <<val, out, doc, signed_zero, pc, xpath, document, built, expression,
          context, evals, outcome, factory, history>>

valueVars == <<val, out, doc, signed_zero>>
evalVars == <<pc, xpath, document, built, expression, context, evals, outcome>>
factoryVars == <<factory, history>>

None == [t |-> "None"]

(***************************************************************************)
(* Bounds of the model.                                                    *)
(***************************************************************************)
MaxLen == 3       \* longest enumerated String value
MaxNodes == 3     \* nodes of the enumerated documents
MaxBuilds == 2    \* builds made on the long-lived Factory

(***************************************************************************)
(* Characters.                                                             *)
(***************************************************************************)
Digit == {"0", "1", "2", "3", "4", "5", "6", "7", "8", "9"}

DigitVal(c) ==
    CASE c = "0" -> 0 [] c = "1" -> 1 [] c = "2" -> 2 [] c = "3" -> 3
      [] c = "4" -> 4 [] c = "5" -> 5 [] c = "6" -> 6 [] c = "7" -> 7
      [] c = "8" -> 8 [] c = "9" -> 9

DigitChar(d) == <<"0", "1", "2", "3", "4", "5", "6", "7", "8", "9">>[d + 1]

\* char::is_whitespace, the White_Space characters str::trim removes; of the
\* characters beyond U+0020 one stands for the rest.
WhiteSpace == {" ", "\t", "\n", "\r", "\f", "U+000B", "U+00A0"}

\* The four characters XPath 1.0 calls whitespace (production S).
XPathSpace == {" ", "\t", "\n", "\r"}

ToLower(c) ==
    CASE c = "I" -> "i" [] c = "N" -> "n" [] c = "F" -> "f" [] c = "A" -> "a"
      [] c = "T" -> "t" [] c = "Y" -> "y" [] c = "E" -> "e" [] OTHER -> c

Lower(s) == [i \in 1..Len(s) |-> ToLower(s[i])]

RECURSIVE TrimStart(_)
TrimStart(s) ==
    IF s # <<>> /\ Head(s) \in WhiteSpace THEN TrimStart(Tail(s)) ELSE s

RECURSIVE TrimEnd(_)
TrimEnd(s) ==
    IF s # <<>> /\ s[Len(s)] \in WhiteSpace
    THEN TrimEnd(SubSeq(s, 1, Len(s) - 1)) ELSE s

\* str::trim
Trim(s) == TrimEnd(TrimStart(s))

(***************************************************************************)
(* f64.                                                                    *)
(***************************************************************************)
NaN == [k |-> "nan", neg |-> FALSE, m |-> 0, e |-> 0]
Inf(neg) == [k |-> "inf", neg |-> neg, m |-> 0, e |-> 0]
Zero(neg) == [k |-> "fin", neg |-> neg, m |-> 0, e |-> 0]

RECURSIVE Normalize(_, _, _)
Normalize(neg, m, e) ==
    IF m = 0 THEN Zero(neg)
    ELSE IF m % 10 = 0 THEN Normalize(neg, m \div 10, e + 1)
    ELSE [k |-> "fin", neg |-> neg, m |-> m, e |-> e]

Fin(neg, m, e) == Normalize(neg, m, e)

is_nan(n) == n.k = "nan"
is_infinite(n) == n.k = "inf"
IsZero(n) == n.k = "fin" /\ n.m = 0

\* f64 ==: NaN equals nothing, the two zeros are equal.
F64Eq(a, b) ==
    /\ ~is_nan(a) /\ ~is_nan(b)
    /\ \/ IsZero(a) /\ IsZero(b)
       \/ a = b

\* f64::signum() < 0.0
SignumNegative(n) == ~is_nan(n) /\ n.neg

RECURSIVE NatDigits(_)
NatDigits(m) ==
    IF m < 10 THEN <<DigitChar(m)>>
    ELSE NatDigits(m \div 10) \o <<DigitChar(m % 10)>>

RECURSIVE DigitsNat(_)
DigitsNat(ds) ==
    IF ds = <<>> THEN 0
    ELSE 10 * DigitsNat(SubSeq(ds, 1, Len(ds) - 1)) + DigitVal(ds[Len(ds)])

Zeros(n) == [i \in 1..n |-> "0"]

RECURSIVE DigitPrefixLen(_)
DigitPrefixLen(s) ==
    IF s # <<>> /\ Head(s) \in Digit THEN 1 + DigitPrefixLen(Tail(s)) ELSE 0

Drop(s, n) == SubSeq(s, n + 1, Len(s))
Take(s, n) == SubSeq(s, 1, n)

\* Rounding of the decimal m * 10^e (m > 0, at most 7 digits) to f64: past
\* f64::MAX (1.7976931348623157e308) it is an infinity, below half the least
\* subnormal (4.9e-324) a zero.  The subnormal range, where an f64 keeps
\* fewer than 15 digits, needs an exponent of three digits after a sign and
\* lies outside the strings this model enumerates.
RoundToF64(neg, m, e) ==
    LET n == Fin(neg, m, e)
        nd == Len(NatDigits(n.m))
        order == nd + n.e - 1
        lead == DigitsNat(Take(NatDigits(n.m) \o Zeros(5), 5))
    IN  IF n.m = 0 THEN n
        ELSE IF order > 308 \/ (order = 308 /\ lead > 17976) THEN Inf(neg)
        ELSE IF order < -324 THEN Zero(neg)
        ELSE n

\* A failed parse (ParseFloatError), in the shape of an f64 record.
Err == [k |-> "err", neg |-> FALSE, m |-> 0, e |-> 0]

\* The exponent part of a float literal: 'e' Sign? Digit+ up to the end.
ParseExp(s) ==
    IF s = <<>> THEN [ok |-> TRUE, v |-> 0]
    ELSE IF ToLower(s[1]) # "e" THEN [ok |-> FALSE, v |-> 0]
    ELSE LET r == Tail(s)
             signed == r # <<>> /\ r[1] \in {"+", "-"}
             ds == IF signed THEN Tail(r) ELSE r
         IN  IF ds = <<>> \/ DigitPrefixLen(ds) # Len(ds) THEN [ok |-> FALSE, v |-> 0]
             ELSE IF signed /\ r[1] = "-" THEN [ok |-> TRUE, v |-> 0 - DigitsNat(ds)]
             ELSE [ok |-> TRUE, v |-> DigitsNat(ds)]

RECURSIVE StripLeadingZeros(_)
StripLeadingZeros(ds) ==
    IF ds # <<>> /\ Head(ds) = "0" THEN StripLeadingZeros(Tail(ds)) ELSE ds

RECURSIVE TrailingZeros(_)
TrailingZeros(ds) ==
    IF ds # <<>> /\ ds[Len(ds)] = "0"
    THEN 1 + TrailingZeros(SubSeq(ds, 1, Len(ds) - 1)) ELSE 0

\* Number ::= ( Digit+ | Digit+ '.' Digit* | Digit* '.' Digit+ ) Exp?
\* The value is that of the digits that count (without leading and trailing
\* zeros) at the exponent they stand at.
ParseNumber(neg, s) ==
    LET ni == DigitPrefixLen(s)
        ip == Take(s, ni)
        r1 == Drop(s, ni)
        dot == r1 # <<>> /\ r1[1] = "."
        r2 == IF dot THEN Tail(r1) ELSE r1
        nf == IF dot THEN DigitPrefixLen(r2) ELSE 0
        fp == Take(r2, nf)
        r3 == Drop(r2, nf)
        ex == ParseExp(r3)
        ds == StripLeadingZeros(ip \o fp)
        tz == TrailingZeros(ds)
    IN  IF ni + nf = 0 \/ ~ex.ok THEN Err
        ELSE RoundToF64(neg, DigitsNat(Take(ds, Len(ds) - tz)), ex.v - nf + tz)

\* <f64 as FromStr>::from_str:
\* Float ::= Sign? ( 'inf' | 'infinity' | 'nan' | Number ), letters in any case.
ParseFloat(s) ==
    LET signed == s # <<>> /\ s[1] \in {"+", "-"}
        neg == signed /\ s[1] = "-"
        body == IF signed THEN Tail(s) ELSE s
    IN  IF Lower(body) \in {<<"i", "n", "f">>,
                            <<"i", "n", "f", "i", "n", "i", "t", "y">>}
        THEN Inf(neg)
        ELSE IF Lower(body) = <<"n", "a", "n">> THEN NaN
        ELSE ParseNumber(neg, body)

\* flt2dec::digits_to_dec_str with no fractional digits asked for: the digits
\* buf and the position exp of the decimal point, never an exponent.
DigitsToDecStr(buf, exp) ==
    IF exp <= 0 THEN <<"0", ".">> \o Zeros(0 - exp) \o buf
    ELSE IF exp < Len(buf) THEN Take(buf, exp) \o <<".">> \o Drop(buf, exp)
    ELSE buf \o Zeros(exp - Len(buf))

\* <f64 as Display>::fmt, which f64::to_string() uses: the shortest digits
\* that read back as the same f64.  Since Rust 1.53 a negative zero is
\* printed with its sign; before, without.
F64ToString(n, signZero) ==
    IF is_nan(n) THEN <<"N", "a", "N">>
    ELSE LET sign == IF n.neg /\ (~IsZero(n) \/ signZero) THEN <<"-">> ELSE <<>>
         IN  IF is_infinite(n) THEN sign \o <<"i", "n", "f">>
             ELSE IF IsZero(n) THEN sign \o <<"0">>
             ELSE sign \o DigitsToDecStr(NatDigits(n.m), Len(NatDigits(n.m)) + n.e)

(***************************************************************************)
(* Node-sets.  The document's nodes are the comments appended to its root, *)
(* named 1..Len(doc) in document order; node n has string value doc[n].    *)
(* A node-set keeps its nodes in the order they were added.                *)
(***************************************************************************)
Nodes == 1..Len(doc)

string_value(n) == doc[n]

Some(v) == [t |-> "Some", v |-> v]

\* Nodeset::add: a set, so adding a member again changes nothing.
NodesetAdd(ns, n) ==
    IF \E i \in 1..Len(ns) : ns[i] = n THEN ns ELSE Append(ns, n)

\* Nodeset::size
NodesetSize(ns) == Len(ns)

\* Nodeset::document_order_first
document_order_first(ns) ==
    IF ns = <<>> THEN None
    ELSE Some(CHOOSE n \in {ns[i] : i \in 1..Len(ns)} :
                 \A j \in 1..Len(ns) : n <= ns[j])

(***************************************************************************)
(* Value and its coercions.                                                *)
(***************************************************************************)
Boolean(b) == [t |-> "Boolean", b |-> b]
Number(n) == [t |-> "Number", n |-> n]
String(s) == [t |-> "String", s |-> s]
Nodeset(ns) == [t |-> "Nodeset", ns |-> ns]

\* s.trim().parse().unwrap_or(NAN)
str_to_num(s) ==
    LET r == ParseFloat(Trim(s)) IN IF r = Err THEN NaN ELSE r

\* bool::to_string
BoolToString(b) ==
    IF b THEN <<"t", "r", "u", "e">> ELSE <<"f", "a", "l", "s", "e">>

\* Value::string without its test for the infinities.
NumberStringPlain(n) == F64ToString(n, signed_zero)

\* The Number arm of Value::string.
NumberString(n) ==
    IF is_infinite(n)
    THEN IF SignumNegative(n)
         THEN <<"-", "I", "n", "f", "i", "n", "i", "t", "y">>
         ELSE <<"I", "n", "f", "i", "n", "i", "t", "y">>
    ELSE F64ToString(n, signed_zero)

\* Value::string taking the node added first, not the first of the document.
NodesetStringFirstAdded(ns) ==
    IF ns = <<>> THEN <<>> ELSE string_value(ns[1])

\* The Nodeset arm of Value::string.
NodesetString(ns) ==
    LET first == document_order_first(ns)
    IN  IF first = None THEN <<>> ELSE string_value(first.v)

\* Value::string printing a String the way {:?} does, in quotes.
StringStringQuoted(s) == <<"\"">> \o s \o <<"\"">>

\* The String arm of Value::string: val.clone()
StringString(s) == s

\* Value::string
ValueString(v) ==
    CASE v.t = "Boolean" -> BoolToString(v.b)
      [] v.t = "Number" -> NumberString(v.n)
      [] v.t = "String" -> StringString(v.s)
      [] v.t = "Nodeset" -> NodesetString(v.ns)

\* Value::boolean without its test for NaN.
NumberBooleanNoNaN(n) == ~F64Eq(n, Zero(FALSE))

\* The Number arm of Value::boolean.
NumberBoolean(n) == ~F64Eq(n, Zero(FALSE)) /\ ~is_nan(n)

\* Value::boolean
ValueBoolean(v) ==
    CASE v.t = "Boolean" -> v.b
      [] v.t = "Number" -> NumberBoolean(v.n)
      [] v.t = "String" -> v.s # <<>>
      [] v.t = "Nodeset" -> NodesetSize(v.ns) > 0

\* The Nodeset arm of Value::number.
NodesetNumber(v) == str_to_num(ValueString(v))

\* Value::number
ValueNumber(v) ==
    CASE v.t = "Boolean" -> IF v.b THEN Fin(FALSE, 1, 0) ELSE Zero(FALSE)
      [] v.t = "Number" -> v.n
      [] v.t = "String" -> str_to_num(v.s)
      [] v.t = "Nodeset" -> NodesetNumber(v)

(***************************************************************************)
(* The values the conversions are applied to.                              *)
(***************************************************************************)
Alphabet == {"0", "1", "5", ".", "-", "+", "e", " ", "\t", "\f", "i", "n", "f"}

BoundedStrings == UNION {[1..k -> Alphabet] : k \in 0..MaxLen}

\* The strings of the tests of lib.rs (lines 309-331) and of the two
\* further shapes from_str accepts: an explicit plus sign, a bare fraction.
TestStrings ==
    { <<"1", ".", "5">>, <<"-", "1", ".", "5">>,
      <<"\r", "\n", "1", ".", "5", " ", "\t">>,
      <<"I", " ", "a", "m", " ", "n", "o", "t">>,
      <<"+", "1", ".", "5">>, <<"1", "E", "2">> }

\* The numbers of the tests of lib.rs (lines 371-411).
TestNumbers ==
    { NaN, Zero(FALSE), Zero(TRUE), Inf(FALSE), Inf(TRUE),
      Fin(TRUE, 42, 0), Fin(FALSE, 12, -1) }

\* String values of comment nodes (tests at lines 345-357 and 413-425).
NodeTexts ==
    { <<"4", "2", ".", "4", "2">>, <<"1", "2", "3", "4">>,
      <<"c", "o", "m", "m", "e", "n", "t", " ", "1">>, <<"1", "e", "1">> }

Scalars ==
    {Boolean(b) : b \in BOOLEAN}
      \cup {Number(n) : n \in TestNumbers}
      \cup {String(s) : s \in BoundedStrings \cup TestStrings}

NoOut == [op |-> "none", r |-> FALSE]

EvalIdle ==
    /\ pc = "idle" /\ xpath = <<>> /\ document = None /\ built = None
    /\ expression = None /\ context = None /\ evals = 0 /\ outcome = None
    /\ factory = None /\ history = <<>>

Init ==
    /\ signed_zero \in BOOLEAN
    /\ \/ val \in Scalars /\ doc = <<>>
       \/ val = Nodeset(<<>>) /\ doc \in [1..MaxNodes -> NodeTexts]
    /\ out = NoOut
    /\ EvalIdle

\* v.boolean()
CallBoolean ==
    /\ out' = [op |-> "boolean", r |-> ValueBoolean(val)]
    /\ UNCHANGED <<val, doc, signed_zero, evalVars, factoryVars>>

\* v.number()
CallNumber ==
    /\ out' = [op |-> "number", r |-> ValueNumber(val)]
    /\ UNCHANGED <<val, doc, signed_zero, evalVars, factoryVars>>

\* v.string()
CallString ==
    /\ out' = [op |-> "string", r |-> ValueString(val)]
    /\ UNCHANGED <<val, doc, signed_zero, evalVars, factoryVars>>

\* Value::Boolean(r), Value::Number(r), Value::String(r): the result of a
\* conversion made a Value again, as a chain of conversions does.
Wrap ==
    /\ out.op # "none"
    /\ val' = CASE out.op = "boolean" -> Boolean(out.r)
                [] out.op = "number" -> Number(out.r)
                [] out.op = "string" -> String(out.r)
    /\ out' = NoOut
    /\ UNCHANGED <<doc, signed_zero, evalVars, factoryVars>>

\* nodeset.add(node) on the node-set of a Value::Nodeset under construction.
Add ==
    /\ val.t = "Nodeset"
    /\ \E n \in Nodes : val' = Nodeset(NodesetAdd(val.ns, n))
    /\ out' = NoOut
    /\ UNCHANGED <<doc, signed_zero, evalVars, factoryVars>>

Next == CallBoolean \/ CallNumber \/ CallString \/ Wrap \/ Add

Spec == Init /\ [][Next]_vars

(***************************************************************************)
(* The XPath pipeline behind Factory::build, for location paths of child   *)
(* steps and variable references: text -> Tokenizer -> TokenDeabbreviator  *)
(* -> Parser -> expression.                                                *)
(***************************************************************************)
NameChar ==
    {"a", "b", "c", "d", "f", "h", "i", "l", "o", "r", "t"}

Tok(t, name) == [t |-> t, name |-> name]

Ok(v) == [t |-> "Ok", v |-> v]
Failed(e) == [t |-> "Err", e |-> e]

RECURSIVE NamePrefixLen(_)
NamePrefixLen(s) ==
    IF s # <<>> /\ Head(s) \in NameChar THEN 1 + NamePrefixLen(Tail(s)) ELSE 0

\* Tokenizer::new(xpath) and its iteration to the end of the text: the
\* tokens, or the first tokenizer error; offset is the position reached.
RECURSIVE Tokenize(_, _)
Tokenize(s, offset) ==
    IF s = <<>> THEN Ok(<<>>)
    ELSE LET c == Head(s)
             n == CASE c \in XPathSpace -> 1
                    [] c = "/" -> IF Len(s) > 1 /\ s[2] = "/" THEN 2 ELSE 1
                    [] c = "." -> IF Len(s) > 1 /\ s[2] = "." THEN 2 ELSE 1
                    [] c = "$" -> 1 + NamePrefixLen(Tail(s))
                    [] c \in NameChar -> NamePrefixLen(s)
                    [] OTHER -> 0
             tok == CASE c \in XPathSpace -> <<>>
                      [] c = "/" -> <<Tok(IF n = 2 THEN "DoubleSlash" ELSE "Slash", <<>>)>>
                      [] c = "." -> <<Tok(IF n = 2 THEN "ParentNode" ELSE "CurrentNode", <<>>)>>
                      [] c = "$" -> <<Tok("Variable", SubSeq(s, 2, n))>>
                      [] c \in NameChar -> <<Tok("NameTest", Take(s, n))>>
                      [] OTHER -> <<>>
             rest == Tokenize(Drop(s, n), offset + n)
         IN  IF n = 0 \/ (c = "$" /\ n = 1)
             THEN Failed([t |-> "UnexpectedCharacter", at |-> offset])
             ELSE IF rest.t = "Err" THEN rest
             ELSE Ok(tok \o rest.v)

TokenizerNew(text) == Tokenize(text, 0)

\* TokenDeabbreviator: the abbreviated tokens rewritten to the canonical ones.
RECURSIVE Deabbreviate(_, _)
Deabbreviate(toks, afterAxis) ==
    IF toks = <<>> THEN <<>>
    ELSE LET k == Head(toks)
             e == CASE k.t = "DoubleSlash" ->
                         << Tok("Slash", <<>>),
                            Tok("Axis", <<"descendant-or-self">>),
                            Tok("NodeTest", <<"node">>), Tok("Slash", <<>>) >>
                    [] k.t = "CurrentNode" ->
                         <<Tok("Axis", <<"self">>), Tok("NodeTest", <<"node">>)>>
                    [] k.t = "ParentNode" ->
                         <<Tok("Axis", <<"parent">>), Tok("NodeTest", <<"node">>)>>
                    [] k.t = "NameTest" /\ ~afterAxis ->
                         <<Tok("Axis", <<"child">>), k>>
                    [] OTHER -> <<k>>
         IN  e \o Deabbreviate(Tail(toks), k.t = "Axis")

TokenDeabbreviatorNew(tokenizer) ==
    IF tokenizer.t = "Err" THEN tokenizer
    ELSE Ok(Deabbreviate(tokenizer.v, FALSE))

\* The steps of a relative location path: Axis NodeTest ('/' Axis NodeTest)*.
RECURSIVE ParseSteps(_)
ParseSteps(toks) ==
    IF Len(toks) < 2 \/ toks[1].t # "Axis" \/ toks[2].t \notin {"NameTest", "NodeTest"}
    THEN Failed([t |-> "UnexpectedToken", at |-> 0])
    ELSE LET step == [axis |-> toks[1].name, test |-> toks[2]]
             after == Drop(toks, 2)
         IN  IF after = <<>> THEN Ok(<<step>>)
             ELSE IF after[1].t # "Slash"
             THEN Failed([t |-> "ExtraUnparsedTokens", at |-> 0])
             ELSE IF Len(after) = 1
             THEN Failed([t |-> "TrailingSlash", at |-> 0])
             ELSE LET more == ParseSteps(Tail(after))
                  IN  IF more.t = "Err" THEN more ELSE Ok(<<step>> \o more.v)

ParserNew == [t |-> "Parser"]

\* Parser::parse: Ok(None) when there is no token, Ok(Some(expression)), or
\* the first error, a tokenizer error wrapped as TokenizerError.
ParserParse(parser, source) ==
    IF source.t = "Err"
    THEN Failed([t |-> "TokenizerError", at |-> source.e.at])
    ELSE LET toks == source.v IN
         IF toks = <<>> THEN Ok(None)
         ELSE IF toks[1].t = "Variable"
         THEN IF Len(toks) = 1
              THEN Ok(Some([t |-> "Variable", name |-> toks[1].name,
                            absolute |-> FALSE, steps |-> <<>>]))
              ELSE Failed([t |-> "ExtraUnparsedTokens", at |-> 0])
         ELSE LET absolute == toks[1].t = "Slash"
                  rel == IF absolute THEN Tail(toks) ELSE toks
                  steps == IF rel = <<>> THEN Ok(<<>>) ELSE ParseSteps(rel)
              IN  IF steps.t = "Err" THEN steps
                  ELSE Ok(Some([t |-> "Path", name |-> <<>>,
                                absolute |-> absolute, steps |-> steps.v]))

\* Factory::build reading on in the tokenizer of the build before.
FactoryBuildStale(f, text) ==
    LET tokenizer == IF history = <<>> THEN TokenizerNew(text)
                     ELSE TokenizerNew(history[Len(history)].text)
        deabbreviator == TokenDeabbreviatorNew(tokenizer)
    IN  ParserParse(f.parser, deabbreviator)

\* Factory::new
FactoryNew == [parser |-> ParserNew]

\* Factory::build
FactoryBuild(f, text) ==
    LET tokenizer == TokenizerNew(text)
        deabbreviator == TokenDeabbreviatorNew(tokenizer)
    IN  ParserParse(f.parser, deabbreviator)

(***************************************************************************)
(* Documents, contexts and the evaluation of an expression.  A document is *)
(* the sequence of its elements, each with its name and its parent; node 0 *)
(* is the document root.                                                   *)
(***************************************************************************)
Elem(name, parent) == [name |-> name, parent |-> parent]

\* <root><child>content</child></root>, <root>hello</root>, <a><b/><b/></a>
Documents ==
    { << Elem(<<"r", "o", "o", "t">>, 0), Elem(<<"c", "h", "i", "l", "d">>, 1) >>,
      << Elem(<<"r", "o", "o", "t">>, 0) >>,
      << Elem(<<"a">>, 0), Elem(<<"b">>, 1), Elem(<<"b">>, 1) >> }

\* Document::root
Root(d) == [d |-> d, n |-> 0]

\* Context::new(node): no variables, no namespaces, the core functions.
ContextNew(node) ==
    [node |-> node, variables |-> {}, namespaces |-> {}, functions |-> "core"]

\* Context::evaluation_context
EvaluationContext(c) ==
    [node |-> c.node, position |-> 1, size |-> 1, variables |-> c.variables]

RECURSIVE Descendants(_, _)
Descendants(d, S) ==
    LET T == S \cup {n \in 1..Len(d) : d[n].parent \in S}
    IN  IF T = S THEN S ELSE Descendants(d, T)

Matches(d, n, test) ==
    test.t = "NodeTest" \/ (n # 0 /\ d[n].name = test.name)

\* One location step from the nodes S.
StepNodes(d, S, step) ==
    LET axis == step.axis[1]
        cand == CASE axis = "child" -> {n \in 1..Len(d) : d[n].parent \in S}
                  [] axis = "self" -> S
                  [] axis = "parent" -> {d[n].parent : n \in S \ {0}}
                  [] axis = "descendant-or-self" -> Descendants(d, S)
    IN  {n \in cand : Matches(d, n, step.test)}

RECURSIVE PathNodes(_, _, _)
PathNodes(d, S, steps) ==
    IF steps = <<>> THEN S
    ELSE PathNodes(d, StepNodes(d, S, Head(steps)), Tail(steps))

RECURSIVE InDocumentOrder(_)
InDocumentOrder(S) ==
    IF S = {} THEN <<>>
    ELSE LET n == CHOOSE x \in S : \A y \in S : x <= y
         IN  <<n>> \o InDocumentOrder(S \ {n})

\* Expression::evaluate
Evaluate(expr, ec) ==
    IF expr.t = "Variable"
    THEN IF \E b \in ec.variables : b.name = expr.name
         THEN Ok((CHOOSE b \in ec.variables : b.name = expr.name).value)
         ELSE Failed([t |-> "UnknownVariable", name |-> expr.name])
    ELSE LET start == IF expr.absolute THEN 0 ELSE ec.node.n
         IN  Ok(Nodeset(InDocumentOrder(PathNodes(ec.node.d, {start}, expr.steps))))

(***************************************************************************)
(* Error and evaluate_xpath.                                               *)
(***************************************************************************)
\* A parse error filed under the wrong variant.
ErrorFromParserAsExecuting(e) == [t |-> "Executing", err |-> e]

\* Error::Parsing, by its from()
ErrorFromParser(e) == [t |-> "Parsing", err |-> e]

NoXPath == [t |-> "NoXPath", err |-> None]

\* Error::Executing, by its from()
ErrorFromExpression(e) == [t |-> "Executing", err |-> e]

\* The context starting at the document element, not at the root.
DefaultContextAtElement(d) == ContextNew([d |-> d, n |-> 1])

\* The context of evaluate_xpath (line 296).
DefaultContext(d) == ContextNew(Root(d))

\* Option::ok_or
ok_or(opt, err) == IF opt = None THEN Failed(err) ELSE Ok(opt.v)

VariableNames == {<<"f", "o", "o">>, <<"b", "a", "r">>, <<"a">>}

XPathTexts ==
    { <<>>, <<"/">>, <<".">>, <<"/", "r", "o", "o", "t">>,
      <<"/", "r", "o", "o", "t", "/", "c", "h", "i", "l", "d">>,
      <<"/", "r", "o", "o", "t", "/", "c", "h", "i", "l", "d", "/">>,
      <<"/", "a", "/">>, <<"/", "a", "/", "b">>, <<"/", "/", "b">>,
      <<"c", "h", "i", "l", "d">> }
      \cup {<<"$">> \o v : v \in VariableNames}

\* evaluate_xpath(document, xpath) is entered; line 292: Factory::new().
Call ==
    /\ pc = "idle"
    /\ document' \in Documents
    /\ xpath' \in XPathTexts
    /\ pc' = "build"
    /\ built' = None /\ expression' = None /\ context' = None
    /\ evals' = 0 /\ outcome' = None
    /\ UNCHANGED <<valueVars, factoryVars>>

\* line 293: factory.build(xpath)?
StepBuild ==
    /\ pc = "build"
    /\ built' = FactoryBuild(FactoryNew, xpath)
    /\ IF built'.t = "Err"
       THEN outcome' = Failed(ErrorFromParser(built'.e)) /\ pc' = "done"
       ELSE outcome' = outcome /\ pc' = "unwrap"
    /\ UNCHANGED <<xpath, document, expression, context, evals, valueVars, factoryVars>>

\* line 294: expression.ok_or(Error::NoXPath)?
StepUnwrap ==
    /\ pc = "unwrap"
    /\ LET r == ok_or(built.v, NoXPath)
       IN  IF r.t = "Err"
           THEN outcome' = r /\ expression' = expression /\ pc' = "done"
           ELSE outcome' = outcome /\ expression' = r.v /\ pc' = "context"
    /\ UNCHANGED <<xpath, document, built, context, evals, valueVars, factoryVars>>

\* line 296: Context::new(document.root())
StepContext ==
    /\ pc = "context"
    /\ context' = DefaultContext(document)
    /\ pc' = "evaluate"
    /\ UNCHANGED <<xpath, document, built, expression, evals, outcome, valueVars, factoryVars>>

\* line 298: expression.evaluate(&context.evaluation_context()).map_err(Into::into)
StepEvaluate ==
    /\ pc = "evaluate"
    /\ LET r == Evaluate(expression, EvaluationContext(context))
       IN  outcome' = IF r.t = "Err" THEN Failed(ErrorFromExpression(r.e)) ELSE r
    /\ evals' = evals + 1
    /\ pc' = "done"
    /\ UNCHANGED <<xpath, document, built, expression, context, valueVars, factoryVars>>

\* The caller has taken the result; the locals are gone.
Return ==
    /\ pc = "done"
    /\ pc' = "idle" /\ xpath' = <<>> /\ document' = None /\ built' = None
    /\ expression' = None /\ context' = None /\ evals' = 0 /\ outcome' = None
    /\ UNCHANGED <<valueVars, factoryVars>>

\* A caller's own Factory::new(), kept for several builds.
NewFactory ==
    /\ factory = None
    /\ factory' = FactoryNew
    /\ UNCHANGED <<history, valueVars, evalVars>>

\* factory.build(text) on the caller's Factory; build takes &self.
Build ==
    /\ factory # None
    /\ Len(history) < MaxBuilds
    /\ \E text \in XPathTexts :
          history' = Append(history, [text |-> text, result |-> FactoryBuild(factory, text)])
    /\ UNCHANGED <<factory, valueVars, evalVars>>

InitEval ==
    /\ val = Boolean(FALSE) /\ out = NoOut /\ doc = <<>> /\ signed_zero = FALSE
    /\ EvalIdle

NextEval ==
    \/ Call \/ StepBuild \/ StepUnwrap \/ StepContext \/ StepEvaluate \/ Return
    \/ NewFactory \/ Build

SpecEval == InitEval /\ [][NextEval]_vars

(***************************************************************************)
(* Properties of evaluate_xpath and of Factory, under SpecEval.            *)
(***************************************************************************)
IsNoXPath(o) == o.t = "Err" /\ o.e.t = "NoXPath"
IsExecuting(o) == o.t = "Err" /\ o.e.t = "Executing"

\* C1: evaluate_xpath returns exactly one outcome, decided in this order:
\* Err(Parsing(e)) when build fails with e; else Err(NoXPath) when build
\* yields no expression; else Err(Executing(e)) when the evaluation fails
\* with e; else Ok(value).  The first failure is returned unchanged, and
\* after a Parsing or NoXPath outcome no context was created and nothing
\* was evaluated.
C1_OutcomeInOrder ==
    /\ (pc = "done") = (outcome # None)
    /\ pc = "done" =>
         LET b == FactoryBuild(FactoryNew, xpath) IN
         /\ built = b
         /\ b.t = "Err" =>
              /\ outcome = Failed([t |-> "Parsing", err |-> b.e])
              /\ context = None /\ evals = 0 /\ expression = None
         /\ b.t = "Ok" /\ b.v = None =>
              /\ outcome = Failed([t |-> "NoXPath", err |-> None])
              /\ context = None /\ evals = 0 /\ expression = None
         /\ b.t = "Ok" /\ b.v # None =>
              LET r == Evaluate(b.v.v, EvaluationContext(ContextNew(Root(document))))
              IN  /\ evals = 1
                  /\ r.t = "Err" => outcome = Failed([t |-> "Executing", err |-> r.e])
                  /\ r.t = "Ok" => outcome = r
    /\ xpath = <<>> /\ pc = "done" => IsNoXPath(outcome)

\* C1, its case: a call that ended at the parse error of "/root/child/".
C1_Witness ==
    /\ pc = "done"
    /\ xpath = <<"/", "r", "o", "o", "t", "/", "c", "h", "i", "l", "d", "/">>
    /\ outcome = Failed([t |-> "Parsing", err |-> [t |-> "TrailingSlash", at |-> 0]])
    /\ context = None /\ evals = 0

\* C7: evaluate_xpath evaluates with the default context: the document root
\* is the context node and no variable is bound, so for every document and
\* every variable name v the text "$v" gives
\* Err(Executing(UnknownVariable(v))), never a value.
C7_DefaultContext ==
    /\ context # None =>
         /\ context.node = [d |-> document, n |-> 0]
         /\ context.variables = {}
         /\ context.namespaces = {}
    /\ \A v \in VariableNames :
         pc = "done" /\ xpath = <<"$">> \o v =>
           outcome = Failed([t |-> "Executing",
                             err |-> [t |-> "UnknownVariable", name |-> v]])
    /\ pc = "done" /\ xpath = <<".">> =>
         outcome = Ok(Nodeset(<<0>>))

\* C7, its case: "$foo" evaluated to the end.
C7_Witness ==
    /\ pc = "done"
    /\ xpath = <<"$", "f", "o", "o">>
    /\ evals = 1
    /\ IsExecuting(outcome)
    /\ outcome.e.err.name = <<"f", "o", "o">>

NodeSetOf(ns) == {ns[i] : i \in 1..Len(ns)}

\* n is the first node of the set in document order.
IsFirstInDocumentOrder(n, ns) ==
    n \in NodeSetOf(ns) /\ \A x \in NodeSetOf(ns) : n <= x

\* string() of a node-set is the string value of its first node in document
\* order, and empty for the empty set.
StringOfFirstNode ==
    out.op = "string" /\ val.t = "Nodeset" =>
      \/ val.ns = <<>> /\ out.r = <<>>
      \/ \E n \in Nodes : IsFirstInDocumentOrder(n, val.ns) /\ out.r = doc[n]

\* A step that added node n to the node-set and changed what string() gives.
AddChangedString(n) ==
    /\ val.t = "Nodeset" /\ val'.t = "Nodeset"
    /\ n \notin NodeSetOf(val.ns)
    /\ val'.ns = Append(val.ns, n)
    /\ ValueString(val') # ValueString(val)

\* C2, as amended: string() of a node-set is the string value of the node
\* first in document order, whatever the order of insertion, and empty for
\* the empty set; adding one more node changes string() only if the set was
\* empty or the new node precedes the previous first node.
C2_FirstInDocumentOrder ==
    /\ []StringOfFirstNode
    /\ [][\A n \in Nodes :
            AddChangedString(n) =>
              \/ val.ns = <<>>
              \/ \E f \in Nodes : IsFirstInDocumentOrder(f, val.ns) /\ n < f]_vars

\* C2 as stated: adding one more node changes string() only if the new node
\* precedes the previous first node.
C2_AsStated ==
    /\ []StringOfFirstNode
    /\ [][\A n \in Nodes :
            AddChangedString(n) =>
              \E f \in Nodes : IsFirstInDocumentOrder(f, val.ns) /\ n < f]_vars

\* C2, its case: the second node added before the first, string() taken,
\* and the two nodes differ in their string values.
C2_Witness ==
    /\ out.op = "string" /\ val.t = "Nodeset"
    /\ Len(val.ns) = 2 /\ val.ns[1] = 2 /\ val.ns[2] = 1
    /\ doc[1] # doc[2]
    /\ out.r = doc[1]

\* The string-to-number conversion of XPath 1.0: XPath whitespace trimmed
\* from both ends, then an optional minus sign and a Number
\* (Digits ('.' Digits?)? | '.' Digits); anything else is NaN.
RECURSIVE TrimXPathStart(_)
TrimXPathStart(s) ==
    IF s # <<>> /\ Head(s) \in XPathSpace THEN TrimXPathStart(Tail(s)) ELSE s

RECURSIVE TrimXPathEnd(_)
TrimXPathEnd(s) ==
    IF s # <<>> /\ s[Len(s)] \in XPathSpace
    THEN TrimXPathEnd(SubSeq(s, 1, Len(s) - 1)) ELSE s

IsDecimal(s) ==
    LET body == IF s # <<>> /\ s[1] = "-" THEN Tail(s) ELSE s
        ni == DigitPrefixLen(body)
        r == Drop(body, ni)
    IN  IF r = <<>> THEN ni > 0
        ELSE /\ r[1] = "."
             /\ DigitPrefixLen(Tail(r)) = Len(r) - 1
             /\ ni + Len(r) - 1 > 0

DecimalNumber(s) ==
    LET t == TrimXPathEnd(TrimXPathStart(s))
    IN  IF IsDecimal(t) THEN ParseFloat(t) ELSE NaN

\* C3: number() of a node-set is the string-to-number conversion of its
\* string(): the number of the first node in document order, and NaN when
\* the set is empty or that node's string value is not a number.
C3_NodesetNumber ==
    out.op = "number" /\ val.t = "Nodeset" =>
      /\ out.r = DecimalNumber(ValueString(val))
      /\ val.ns = <<>> => is_nan(out.r)
      /\ \A n \in Nodes :
           IsFirstInDocumentOrder(n, val.ns) => out.r = DecimalNumber(doc[n])

\* number() of a node-set is the code's own str_to_num of its string().
NodesetNumberIsStrToNumOfString ==
    out.op = "number" /\ val.t = "Nodeset" =>
      /\ out.r = str_to_num(ValueString(val))
      /\ \A n \in Nodes :
           IsFirstInDocumentOrder(n, val.ns) => out.r = str_to_num(doc[n])

\* s is an integer numeral: an optional minus sign, then digits only, with
\* no leading zero.
IsIntegerForm(s) ==
    LET body == IF s # <<>> /\ s[1] = "-" THEN Tail(s) ELSE s
    IN  /\ body # <<>>
        /\ \A i \in 1..Len(body) : body[i] \in Digit
        /\ Len(body) > 1 => body[1] # "0"

\* s is a decimal with a fractional part and no digit to spare: an optional
\* minus sign, an integer part with no leading zero, a point, and a
\* fraction that does not end in 0.
IsFractionForm(s) ==
    LET body == IF s # <<>> /\ s[1] = "-" THEN Tail(s) ELSE s
        ni == DigitPrefixLen(body)
        frac == Drop(body, ni + 1)
    IN  /\ ni >= 1
        /\ ni > 1 => body[1] # "0"
        /\ Len(body) >= ni + 2
        /\ body[ni + 1] = "."
        /\ \A i \in 1..Len(frac) : frac[i] \in Digit
        /\ frac[Len(frac)] # "0"

\* The digits of s that count: without sign, point and leading zeros.
RECURSIVE SignificantDigits(_, _)
SignificantDigits(s, started) ==
    IF s = <<>> THEN 0
    ELSE IF Head(s) \in Digit /\ (started \/ Head(s) # "0")
    THEN 1 + SignificantDigits(Tail(s), TRUE)
    ELSE SignificantDigits(Tail(s), started)

\* C4: string() of a Number is "NaN" for NaN, "Infinity" and "-Infinity"
\* for the infinities, the integer numeral with no point for a finite whole
\* number, and otherwise the shortest decimal that reads back as the number.
C4_NumberToString ==
    out.op = "string" /\ val.t = "Number" =>
      LET n == val.n
          s == out.r
      IN  /\ n.k = "nan" => s = <<"N", "a", "N">>
          /\ n.k = "inf" /\ ~n.neg => s = <<"I", "n", "f", "i", "n", "i", "t", "y">>
          /\ n.k = "inf" /\ n.neg => s = <<"-", "I", "n", "f", "i", "n", "i", "t", "y">>
          /\ n.k = "fin" /\ n.e >= 0 =>
               /\ IsIntegerForm(s)
               /\ F64Eq(DecimalNumber(s), n)
               /\ n.m # 0 => (s[1] = "-") = n.neg
          /\ n.k = "fin" /\ n.e < 0 =>
               /\ IsFractionForm(s)
               /\ DecimalNumber(s) = n
               /\ SignificantDigits(s, FALSE) = Len(NatDigits(n.m))

\* C4, its case: -42.0 printed as "-42".
C4_Witness ==
    /\ out.op = "string"
    /\ val = Number(Fin(TRUE, 42, 0))
    /\ out.r = <<"-", "4", "2">>

\* C4, its other case: 1.2 printed as "1.2".
C4_FractionReached ==
    /\ out.op = "string"
    /\ val = Number(Fin(FALSE, 12, -1))
    /\ out.r = <<"1", ".", "2">>

\* C5: string() of a zero, negative zero too, is "0": never a minus sign.
C5_ZeroHasNoSign ==
    out.op = "string" /\ val.t = "Number" /\ IsZero(val.n) => out.r = <<"0">>

\* C6: number() of a String trims the four XPath whitespace characters
\* from both ends and reads the rest as a decimal (optional minus, digits,
\* optional fraction); when the rest is no such decimal the result is NaN.
C6_StringToNumber ==
    out.op = "number" /\ val.t = "String" => out.r = DecimalNumber(val.s)

\* C8: for every string x, string(number(string(x))) = string(number(x)).
C8_RoundTrip ==
    out.op = "string" /\ val.t = "String" =>
      ValueString(Number(ValueNumber(String(out.r))))
        = ValueString(Number(ValueNumber(val)))

\* C8, its case: string() taken of a String that is a number with a fraction.
C8_Witness ==
    /\ out.op = "string" /\ val.t = "String"
    /\ ValueNumber(val) = Fin(FALSE, 15, -1)
    /\ ValueString(Number(ValueNumber(String(out.r)))) = <<"1", ".", "5">>
    /\ val.s # <<"1", ".", "5">>

\* C9: boolean() is the value itself for a Boolean; true exactly when the
\* number is neither a zero nor NaN for a Number; true exactly when the
\* string is not empty for a String; true exactly when the set has a node
\* for a Nodeset.  The call leaves the value as it was.
C9_Boolean ==
    /\ [](out.op = "boolean" =>
            /\ val.t = "Boolean" => out.r = val.b
            /\ val.t = "Number" =>
                 out.r = ~(val.n.k = "nan" \/ (val.n.k = "fin" /\ val.n.m = 0))
            /\ val.t = "String" => out.r = (Len(val.s) > 0)
            /\ val.t = "Nodeset" => out.r = (NodeSetOf(val.ns) # {}))
    /\ [][out'.op = "boolean" => val' = val]_vars

\* C9, its case: boolean() of NaN is false.
C9_Witness ==
    out.op = "boolean" /\ val = Number(NaN) /\ out.r = FALSE

====
